---- MODULE Spec2Model ----
(***************************************************************************)
(* Model of streamlit_fundamental_scanner.py: the per-ticker analysis      *)
(* (analyze_ticker), the fundamental checklist (analyze_meet_kevin,        *)
(* get_growth_metrics), the scoring helpers and the scan loop of main().   *)
(*                                                                         *)
(* Numbers.  Python floats are modelled as exact rationals n/d (d > 0)     *)
(* extended with NaN, +inf and -inf; Python's None, a missing dict key and *)
(* a non-numeric string are separate kinds, because the code treats them   *)
(* differently (dict.get default, TypeError, truthiness).                  *)
(***************************************************************************)
EXTENDS Integers, Sequences, FiniteSets, TLC

VARIABLES
    tickers,          \* main(): the list of ticker symbols being scanned
    feed,             \* what the data provider returns for each list position
    run_fundamental,  \* main(): the "Run Stock Fundamentals?" checkbox
    pc,               \* position in main() / analyze_ticker()
    i,                \* main(): index of the ticker being scanned (1-based)
    cur,              \* analyze_ticker(): locals of the call in progress
    results,          \* main(): the results list
    ui,               \* what main() has rendered after the loop
    fetched,          \* provider calls made by the analyze_ticker call in progress
    used,             \* for each entry of results, the fetched data it was computed from
    arg,              \* argument of a single function call under study
    ret               \* its return value

vars ==
    <<tickers, feed, run_fundamental, pc, i, cur, results, ui, fetched, used, arg, ret>>

scan_vars == <<tickers, feed, run_fundamental, i, cur, results, ui, fetched, used>>

-----------------------------------------------------------------------------
(* Values *)

Val(kind, n, d) == [k |-> kind, n |-> n, d |-> d]

Abs(n) == IF n < 0 THEN -n ELSE n

RECURSIVE GCD(_, _)
GCD(a, b) == IF b = 0 THEN a ELSE GCD(b, a % b)

\* a finite float n/d, in lowest terms with a positive denominator
Rat(n, d) ==
    LET g == GCD(Abs(n), Abs(d))
    IN IF d < 0 THEN Val("num", (-n) \div g, (-d) \div g)
       ELSE Val("num", n \div g, d \div g)

Num(n) == Val("num", n, 1)

NaN == Val("nan", 0, 1)

PosInf == Val("inf", 0, 1)

NegInf == Val("-inf", 0, 1)

\* Python None
None == Val("none", 0, 1)

\* key not in the dict
Absent == Val("absent", 0, 1)

\* a value of the wrong type: a non-empty, non-numeric string
Str == Val("str", 0, 1)

\* an exception travelling up the call stack
Raise == Val("raise", 0, 1)

IsNum(x) == x.k = "num"

IsFloat(x) == x.k \in {"num", "nan", "inf", "-inf"}

\* equality of two finite floats as numbers
RatEq(a, b) == IsNum(a) /\ IsNum(b) /\ a.n * b.d = b.n * a.d

\* arithmetic on finite floats
Add(a, b) == Rat(a.n * b.d + b.n * a.d, a.d * b.d)

Sub(a, b) == Rat(a.n * b.d - b.n * a.d, a.d * b.d)

Mul(a, b) == Rat(a.n * b.n, a.d * b.d)

Div(a, b) == Rat(a.n * b.d, a.d * b.n)

\* dict.get(key, default)
Get(field, default) == IF field.k = "absent" THEN default ELSE field

\* bool(x)
Truthy(x) ==
    CASE x.k = "none" -> FALSE
      [] x.k = "num"  -> x.n # 0
      [] OTHER        -> TRUE

\* a > b on floats (IEEE: every comparison with NaN is False)
FloatGt(a, b) ==
    CASE a.k = "nan" \/ b.k = "nan" -> FALSE
      [] a.k = "inf"                -> b.k # "inf"
      [] a.k = "-inf"               -> FALSE
      [] b.k = "inf"                -> FALSE
      [] b.k = "-inf"               -> TRUE
      [] OTHER                      -> a.n * b.d > b.n * a.d

\* whether a > b (or a < b) raises TypeError: None is unorderable, and so is
\* a string against a number
CmpRaises(a, b) ==
    \/ a.k = "none"
    \/ b.k = "none"
    \/ (a.k = "str") # (b.k = "str")

\* a > b when it does not raise (the one string of the model equals itself)
Gt(a, b) == IF a.k = "str" THEN FALSE ELSE FloatGt(a, b)

Lt(a, b) == Gt(b, a)

\* whether x * 100 yields a number (None * 100 raises TypeError)
Times100Raises(x) == x.k = "none"

\* x * 100; a string times 100 is a (longer) string
Times100(x) == IF IsNum(x) THEN Rat(x.n * 100, x.d) ELSE x

-----------------------------------------------------------------------------
(* get_growth_metrics *)

\* ((current - prev) / prev) * 100 on two cells of the statement.
\* float64 cells follow IEEE (x/0 is +-inf, 0/0 and NaN operands give NaN);
\* cells of an object column are Python numbers or None (ZeroDivisionError,
\* TypeError).
pct_change(current, prev, dtype) ==
    IF current.k = "none" \/ prev.k = "none" THEN Raise
    ELSE IF current.k = "nan" \/ prev.k = "nan" THEN NaN
    ELSE IF prev.n = 0 THEN
        IF dtype = "object" THEN Raise
        ELSE IF current.n > 0 THEN PosInf
        ELSE IF current.n < 0 THEN NegInf
        ELSE NaN
    ELSE Rat((current.n - prev.n) * 100, prev.n)

\* DataFrame.empty
FrameEmpty(fin) == fin.index = {} \/ fin.ncols = 0

GrowthNone == [rev |-> None, opex |-> None, oplev |-> "None"]

\* the variant that tries the aliases in the opposite order
rev_key_reversed(fin) ==
    IF "TotalRevenue" \in fin.index THEN "TotalRevenue" ELSE "Total Revenue"

rev_key(fin) ==
    IF "Total Revenue" \in fin.index THEN "Total Revenue" ELSE "TotalRevenue"

opex_key(fin) ==
    IF "Total Operating Expenses" \in fin.index
    THEN "Total Operating Expenses" ELSE "Operating Expenses"

\* lines 496-503: None, the growth, or Raise
opex_growth_of(fin) ==
    IF opex_key(fin) \notin fin.index THEN None
    ELSE LET opex == fin.cells[opex_key(fin)]
         IN IF Len(opex) >= 2 THEN pct_change(opex[1], opex[2], fin.dtype)
            ELSE None

get_growth_metrics(fin) ==
    IF fin.k = "raise" THEN GrowthNone
    ELSE IF FrameEmpty(fin) THEN GrowthNone
    ELSE IF rev_key(fin) \notin fin.index THEN GrowthNone
    ELSE LET revenue == fin.cells[rev_key(fin)]
         IN IF Len(revenue) < 2 THEN GrowthNone
            ELSE LET revenue_growth == pct_change(revenue[1], revenue[2], fin.dtype)
                     opex_growth == opex_growth_of(fin)
                 IN IF revenue_growth.k = "raise" \/ opex_growth.k = "raise"
                    THEN GrowthNone
                    ELSE [rev |-> revenue_growth,
                          opex |-> opex_growth,
                          oplev |-> IF opex_growth.k # "none"
                                       /\ Gt(revenue_growth, opex_growth)
                                    THEN "True" ELSE "False"]

-----------------------------------------------------------------------------
(* analyze_meet_kevin *)

\* one entry of the results dict; the score is counted in half points
\* (add2 = 2 for +1, 1 for +0.5)
Check(add2, pass, val, msg) ==
    [add2 |-> add2, pass |-> pass, val |-> val, msg |-> msg]

\* entries without a 'val' key
NoVal == Val("noval", 0, 1)

\* the variant whose comparisons are inclusive (>=)
margins_check_inclusive(gross_margins) ==
    IF ~Lt(gross_margins, Num(40)) /\ gross_margins.k # "nan"
    THEN Check(2, "True", gross_margins, "High (>40%)")
    ELSE IF ~Lt(gross_margins, Num(20)) /\ gross_margins.k # "nan"
         THEN Check(1, "partial", gross_margins, "Moderate (>20%)")
    ELSE Check(0, "False", gross_margins, "Low (<20%)")

\* 1. Pricing Power
margins_check(gross_margins) ==
    IF Gt(gross_margins, Num(40)) THEN Check(2, "True", gross_margins, "High (>40%)")
    ELSE IF Gt(gross_margins, Num(20))
         THEN Check(1, "partial", gross_margins, "Moderate (>20%)")
    ELSE Check(0, "False", gross_margins, "Low (<20%)")

\* the variant that records rev_growth itself as 'val' on a non-pass
growth_check_raw_val(rev_growth) ==
    IF Truthy(rev_growth) /\ Gt(rev_growth, Num(20))
    THEN Check(2, "True", rev_growth, "High (>20%)")
    ELSE IF Truthy(rev_growth) /\ Gt(rev_growth, Num(10))
         THEN Check(1, "partial", rev_growth, "Moderate (>10%)")
    ELSE Check(0, "False", rev_growth, "Low (<10%)")

\* 2. Growth
growth_check(rev_growth) ==
    IF Truthy(rev_growth) /\ Gt(rev_growth, Num(20))
    THEN Check(2, "True", rev_growth, "High (>20%)")
    ELSE IF Truthy(rev_growth) /\ Gt(rev_growth, Num(10))
         THEN Check(1, "partial", rev_growth, "Moderate (>10%)")
    ELSE Check(0, "False", IF Truthy(rev_growth) THEN rev_growth ELSE Num(0),
               "Low (<10%)")

\* 3. Operating Leverage
oplev_check(op_leverage) ==
    IF op_leverage = "True" THEN Check(2, "True", NoVal, "Yes")
    ELSE Check(0, "False", NoVal, "No")

\* 4. Balance Sheet; current_ratio is compared only when net cash is not positive
balance_raises(net_cash_positive, current_ratio) ==
    ~net_cash_positive /\ CmpRaises(current_ratio, Rat(3, 2))

balance_check(net_cash_positive, current_ratio) ==
    IF net_cash_positive THEN Check(2, "True", NoVal, "Net Cash +")
    ELSE IF Gt(current_ratio, Rat(3, 2)) THEN Check(1, "partial", NoVal, "Safe Liq")
    ELSE Check(0, "False", NoVal, "High Debt")

\* 5. Valuation; a truthy peg_ratio is compared with numbers
valuation_raises(peg_ratio) ==
    Truthy(peg_ratio) /\ CmpRaises(peg_ratio, Num(1))

valuation_check(peg_ratio) ==
    IF Truthy(peg_ratio) /\ Lt(peg_ratio, Num(1)) /\ Gt(peg_ratio, Num(0))
    THEN Check(2, "True", peg_ratio, "Undervalued")
    ELSE IF Truthy(peg_ratio) /\ Lt(peg_ratio, Rat(3, 2))
         THEN Check(1, "partial", peg_ratio, "Fair")
    ELSE Check(0, "False", IF Truthy(peg_ratio) THEN peg_ratio ELSE Num(0),
               "Expensive")

\* the variant in which high insider ownership is worth two points
insider_check_two_points(insider_ownership) ==
    IF Gt(insider_ownership, Num(10))
    THEN Check(4, "True", insider_ownership, "High (>10%)")
    ELSE IF Gt(insider_ownership, Num(5))
         THEN Check(1, "partial", insider_ownership, "Mod (>5%)")
    ELSE Check(0, "False", insider_ownership, "Low (<5%)")

\* 6. Insider Ownership
insider_check(insider_ownership) ==
    IF Gt(insider_ownership, Num(10))
    THEN Check(2, "True", insider_ownership, "High (>10%)")
    ELSE IF Gt(insider_ownership, Num(5))
         THEN Check(1, "partial", insider_ownership, "Mod (>5%)")
    ELSE Check(0, "False", insider_ownership, "Low (<5%)")

CheckNames == {"margins", "growth", "oplev", "balance", "val", "insider"}

NoChecks == [c \in CheckNames |-> Check(0, "False", NoVal, "")]

\* return None
KevinNone ==
    [k |-> "None", score2 |-> 0, max_score |-> 0, keys |-> {},
     results |-> NoChecks, error |-> FALSE]

\* the record for a quote type other than EQUITY
KevinSkipped ==
    [k |-> "dict", score2 |-> 0, max_score |-> 6, keys |-> {},
     results |-> NoChecks, error |-> TRUE]

\* a TypeError leaving analyze_meet_kevin (nothing in it catches one)
KevinRaise ==
    [k |-> "raise", score2 |-> 0, max_score |-> 0, keys |-> {},
     results |-> NoChecks, error |-> FALSE]

\* `not info`: the dict has no key at all
InfoEmpty(info) ==
    /\ ~info.other
    /\ info.quoteType = "absent"
    /\ \A f \in {"grossMargins", "totalCash", "totalDebt", "currentRatio",
                 "pegRatio", "heldPercentInsiders"} : info[f].k = "absent"

analyze_meet_kevin(info, fin) ==
    IF info.k = "raise" THEN KevinNone
    ELSE IF InfoEmpty(info) THEN KevinNone
    ELSE IF (IF info.quoteType = "absent" THEN "EQUITY" ELSE info.quoteType) # "EQUITY"
         THEN KevinSkipped
    ELSE
    LET gm_raw            == Get(info.grossMargins, Num(0))
        total_cash        == Get(info.totalCash, Num(0))
        total_debt        == Get(info.totalDebt, Num(0))
        current_ratio     == Get(info.currentRatio, Num(0))
        peg_ratio         == Get(info.pegRatio, None)
        ins_raw           == Get(info.heldPercentInsiders, Num(0))
        gross_margins     == Times100(gm_raw)
        insider_ownership == Times100(ins_raw)
        net_cash_positive == Gt(total_cash, total_debt)
        growth            == get_growth_metrics(fin)
        checks ==
            [margins |-> margins_check(gross_margins),
             growth  |-> growth_check(growth.rev),
             oplev   |-> oplev_check(growth.oplev),
             balance |-> balance_check(net_cash_positive, current_ratio),
             val     |-> valuation_check(peg_ratio),
             insider |-> insider_check(insider_ownership)]
    IN  IF \/ Times100Raises(gm_raw)
           \/ Times100Raises(ins_raw)
           \/ CmpRaises(total_cash, total_debt)
           \/ CmpRaises(gross_margins, Num(40))
           \/ balance_raises(net_cash_positive, current_ratio)
           \/ valuation_raises(peg_ratio)
           \/ CmpRaises(insider_ownership, Num(10))
        THEN KevinRaise
        ELSE [k |-> "dict",
              score2 |-> checks.margins.add2 + checks.growth.add2
                         + checks.oplev.add2 + checks.balance.add2
                         + checks.val.add2 + checks.insider.add2,
              max_score |-> 6,
              keys |-> CheckNames,
              results |-> checks,
              error |-> FALSE]

\* analyze_ticker: the Kevin score mapped to 0-100, (score / max_score) * 100
fund_score_val_of(fund_data) == Rat(fund_data.score2 * 100, 2 * fund_data.max_score)

-----------------------------------------------------------------------------
(* Technical, options and news scoring *)

RMax(a, b) == IF Gt(b, a) THEN b ELSE a

RMin(a, b) == IF Lt(b, a) THEN b ELSE a

RAbs(a) == Rat(Abs(a.n), a.d)

\* np.isfinite
isfinite(x) == x.k = "num"

\* round(x, 1); a NaN stays NaN.  Ties are rounded up here, where Python
\* rounds the binary float to even: the two differ by at most 0.1 on a tie.
Round1(x) ==
    IF ~IsNum(x) THEN x
    ELSE Rat((x.n * 20 + x.d) \div (2 * x.d), 10)

\* safe_div(a, b): a / b if b else nan (a NaN denominator is truthy)
safe_div(a, b) ==
    IF ~Truthy(b) THEN NaN
    ELSE IF a.k = "nan" \/ b.k = "nan" THEN NaN
    ELSE Div(a, b)

\* The daily (or hourly) bars enter the scores only through what
\* compute_technical_metrics_from_hist derives from them; a non-empty frame
\* is represented by these derived quantities.
Bars(ema_cross, price_above, rsi_last, rsi_all_nan, rsi_rising, higher_lows, obv_pos, vol_spike, last_close, recent_high) ==
    [k |-> "frame", ema_cross |-> ema_cross, price_above_ema_slow |-> price_above,
     rsi_last |-> rsi_last, rsi_all_nan |-> rsi_all_nan, rsi_rising |-> rsi_rising,
     higher_lows_3 |-> higher_lows, obv_slope_pos |-> obv_pos,
     vol_spike_up |-> vol_spike, last_close |-> last_close,
     recent_high |-> recent_high]

\* pd.DataFrame() returned by get_history: no rows, or the fetch failed
EmptyBars ==
    [Bars(0, 0, NaN, TRUE, 0, 0, 0, 0, Num(0), Num(0)) EXCEPT !.k = "empty"]

\* the tech dict; for {} every field holds the default its readers pass to .get
compute_technical_metrics_from_hist(hist) ==
    IF hist.k = "empty"
    THEN [empty |-> TRUE, last_close |-> Num(0), ema_cross |-> 0,
          price_above_ema_slow |-> 0, rsi |-> Num(50), rsi_rising |-> 0,
          higher_lows_3 |-> 0, obv_slope_pos |-> 0, vol_spike_up |-> 0]
    ELSE [empty |-> FALSE, last_close |-> hist.last_close,
          ema_cross |-> hist.ema_cross,
          price_above_ema_slow |-> hist.price_above_ema_slow,
          rsi |-> IF hist.rsi_all_nan THEN Num(50) ELSE hist.rsi_last,
          rsi_rising |-> hist.rsi_rising,
          higher_lows_3 |-> hist.higher_lows_3,
          obv_slope_pos |-> hist.obv_slope_pos,
          vol_spike_up |-> hist.vol_spike_up]

-----------------------------------------------------------------------------
(* ema, rsi and the metrics compute_technical_metrics_from_hist derives from
   the Close column; a close series is a sequence of integer prices *)

EMA_FAST == 20

EMA_SLOW == 50

RSI_PERIOD == 14

\* a/b > c/d for a, c >= 0 and b, d > 0, without forming the cross products
RECURSIVE FracGtPos(_, _, _, _)
FracGtPos(a, b, c, d) ==
    IF a \div b # c \div d THEN a \div b > c \div d
    ELSE IF a % b = 0 THEN FALSE
    ELSE IF c % d = 0 THEN TRUE
    ELSE FracGtPos(d, c % d, b, a % b)

\* the variant that is a simple moving average with min_periods=1
ema_sma_min_periods_1(series, span) ==
    LET RECURSIVE WindowSum(_, _)
        WindowSum(lo, hi) == IF hi < lo THEN 0 ELSE series[hi] + WindowSum(lo, hi - 1)
        Lo(t) == IF t - span + 1 < 1 THEN 1 ELSE t - span + 1
    IN [t \in 1..Len(series) |-> Rat(WindowSum(Lo(t), t), t - Lo(t) + 1)]

\* series.ewm(span=span, adjust=False).mean():
\* y[1] = x[1], y[t] = (1 - alpha) * y[t-1] + alpha * x[t], alpha = 2 / (span + 1)
ema(series, span) ==
    LET RECURSIVE y(_)
        y(t) == IF t = 1 THEN Num(series[1])
                ELSE Add(Mul(Rat(span - 1, span + 1), y(t - 1)),
                         Mul(Rat(2, span + 1), Num(series[t])))
    IN [t \in 1..Len(series) |-> y(t)]

\* series.diff(), then clip(lower=0) and -1 * clip(upper=0); the first is NaN
rsi_up(series, t) ==
    IF t = 1 THEN NaN
    ELSE Num(IF series[t] - series[t - 1] > 0 THEN series[t] - series[t - 1] ELSE 0)

rsi_down(series, t) ==
    IF t = 1 THEN NaN
    ELSE Num(IF series[t] - series[t - 1] < 0 THEN series[t - 1] - series[t] ELSE 0)

\* x.rolling(period, min_periods=period).mean() at position t, for a column
\* whose only NaN is the first entry
rolling_mean(x, period, t) ==
    LET RECURSIVE WindowSum(_, _)
        WindowSum(lo, hi) == IF hi < lo THEN 0 ELSE x[hi].n + WindowSum(lo, hi - 1)
    IN IF t - period + 1 < 2 THEN NaN
       ELSE Rat(WindowSum(t - period + 1, t), period)

\* 100 - (100 / (1 + rs)) on floats: rs is +inf for ma_down = 0 < ma_up, and
\* NaN for 0 / 0
rsi_of_means(ma_up, ma_down) ==
    IF ma_up.k = "nan" \/ ma_down.k = "nan" THEN NaN
    ELSE IF ma_down.n = 0 THEN (IF ma_up.n > 0 THEN Num(100) ELSE NaN)
    ELSE Sub(Num(100), Div(Num(100), Add(Num(1), Div(ma_up, ma_down))))

\* the variant for which a zero average loss is "no value"
rsi_no_value_without_losses(series, period) ==
    LET up == [t \in 1..Len(series) |-> rsi_up(series, t)]
        down == [t \in 1..Len(series) |-> rsi_down(series, t)]
    IN [t \in 1..Len(series) |->
           IF rolling_mean(down, period, t).k = "num"
              /\ rolling_mean(down, period, t).n = 0
           THEN NaN
           ELSE rsi_of_means(rolling_mean(up, period, t),
                             rolling_mean(down, period, t))]

rsi(series, period) ==
    LET up == [t \in 1..Len(series) |-> rsi_up(series, t)]
        down == [t \in 1..Len(series) |-> rsi_down(series, t)]
    IN [t \in 1..Len(series) |->
           rsi_of_means(rolling_mean(up, period, t), rolling_mean(down, period, t))]

\* lines 222-224: what the tech dict takes from the RSI column
rsi_metrics(close) ==
    LET r == rsi(close, RSI_PERIOD)
        n == Len(close)
    IN [rsi_last |-> r[n],
        rsi_all_nan |-> \A t \in 1..n : r[t].k = "nan",
        rsi_rising |-> IF n >= 3 /\ Gt(r[n], r[n - 2]) THEN 1 ELSE 0]

\* lines 216-220: the two averages of the last bar and their comparisons
ema_metrics(close) ==
    LET n == Len(close)
        ema_fast == ema(close, EMA_FAST)[n]
        ema_slow == ema(close, EMA_SLOW)[n]
    IN [ema_fast |-> ema_fast,
        ema_slow |-> ema_slow,
        ema_cross |-> IF FracGtPos(ema_fast.n, ema_fast.d, ema_slow.n, ema_slow.d)
                      THEN 1 ELSE 0,
        price_above_ema_slow |-> IF FracGtPos(close[n], 1, ema_slow.n, ema_slow.d)
                                 THEN 1 ELSE 0]

\* lines 226-230 for a frame without a Low column (low = close)
higher_lows_3_of(close) ==
    LET n == Len(close)
    IN IF n >= 3 /\ close[n] > close[n - 1] /\ close[n - 1] > close[n - 2] THEN 1 ELSE 0

\* the highest close (detect_buy_the_dip's look.max() for up to 20 bars)
RECURSIVE MaxClose(_, _)
MaxClose(close, n) ==
    IF n = 1 THEN close[1]
    ELSE IF close[n] > MaxClose(close, n - 1) THEN close[n] ELSE MaxClose(close, n - 1)

\* the bars of a frame that has only a Close column, from its RSI and EMA
\* metrics: without a Volume column the OBV slope and the volume spike are 0
CloseOnlyBars(close, e, r) ==
    Bars(e.ema_cross, e.price_above_ema_slow, r.rsi_last, r.rsi_all_nan, r.rsi_rising, higher_lows_3_of(close), 0, 0, Num(close[Len(close)]), Num(MaxClose(close, Len(close))))

AllNaNOptions ==
    [call_put_vol_ratio |-> NaN, call_put_oi_ratio |-> NaN, pcr_volume |-> NaN,
     pcr_oi |-> NaN, avg_call_iv |-> NaN, avg_put_iv |-> NaN, iv_skew |-> NaN]

\* chain.k = "none": no expirations, or the provider raised before any ratio
\* was stored; otherwise the aggregates of the nearest expiry
compute_options_metrics(chain) ==
    IF chain.k = "none" THEN AllNaNOptions
    ELSE [call_put_vol_ratio |-> safe_div(Num(chain.cv), Num(chain.pv)),
          call_put_oi_ratio  |-> safe_div(Num(chain.coi), Num(chain.poi)),
          pcr_volume         |-> safe_div(Num(chain.pv), Num(chain.cv)),
          pcr_oi             |-> safe_div(Num(chain.poi), Num(chain.coi)),
          avg_call_iv        |-> chain.call_iv,
          avg_put_iv         |-> chain.put_iv,
          iv_skew            |-> safe_div(chain.call_iv, chain.put_iv)]

\* the variant that takes a net count of 5 as the full scale
analyze_sentiment_scale_5(news_items) ==
    IF news_items = <<>> THEN Num(50)
    ELSE LET RECURSIVE Sum(_, _)
             Sum(f, j) == IF j = 0 THEN 0 ELSE news_items[j][f] + Sum(f, j - 1)
             n == Len(news_items)
             score == Sum("p_count", n) - Sum("n_count", n)
             total_matches == Sum("p_count", n) + Sum("n_count", n)
             final_score ==
                 IF total_matches > 0
                 THEN RMax(Num(-1), RMin(Num(1), Rat(score, 5)))
                 ELSE Num(0)
         IN Add(Num(50), Mul(final_score, Num(50)))

\* a headline is represented by the number of bullish and of bearish keywords
\* it contains
analyze_sentiment(news_items) ==
    IF news_items = <<>> THEN Num(50)
    ELSE LET RECURSIVE Sum(_, _)
             Sum(f, j) == IF j = 0 THEN 0 ELSE news_items[j][f] + Sum(f, j - 1)
             n == Len(news_items)
             score == Sum("p_count", n) - Sum("n_count", n)
             total_matches == Sum("p_count", n) + Sum("n_count", n)
             final_score ==
                 IF total_matches > 0
                 THEN RMax(Num(-1), RMin(Num(1), Rat(score, 3)))
                 ELSE Num(0)
         IN Add(Num(50), Mul(final_score, Num(50)))

\* the variant that reads a high IV skew as bearish
score_options_sentiment_inverted_skew(opt) ==
    LET pcr == opt.pcr_volume
        skew == opt.iv_skew
        pcr_dev ==
            IF isfinite(pcr)
            THEN Sub(Mul(Div(Sub(Rat(16, 10), RMax(Rat(4, 10), RMin(Rat(16, 10), pcr))),
                             Rat(12, 10)), Num(100)), Num(50))
            ELSE Num(0)
        skew_dev ==
            IF isfinite(skew)
            THEN Sub(Mul(Div(Sub(Rat(12, 10), RMax(Rat(8, 10), RMin(Rat(12, 10), skew))),
                             Rat(4, 10)), Num(100)), Num(50))
            ELSE Num(0)
    IN RMax(Num(0), RMin(Num(100), Add(Add(Num(50), pcr_dev), skew_dev)))

\* the variant without the final clamp to [0, 100]
score_options_sentiment_unclamped(opt) ==
    LET pcr == opt.pcr_volume
        skew == opt.iv_skew
        pcr_dev ==
            IF isfinite(pcr)
            THEN Sub(Mul(Div(Sub(Rat(16, 10), RMax(Rat(4, 10), RMin(Rat(16, 10), pcr))),
                             Rat(12, 10)), Num(100)), Num(50))
            ELSE Num(0)
        skew_dev ==
            IF isfinite(skew)
            THEN Sub(Mul(Div(Sub(RMax(Rat(8, 10), RMin(Rat(12, 10), skew)), Rat(8, 10)),
                             Rat(4, 10)), Num(100)), Num(50))
            ELSE Num(0)
    IN Add(Add(Num(50), pcr_dev), skew_dev)

score_options_sentiment(opt) ==
    LET pcr == opt.pcr_volume
        skew == opt.iv_skew
        pcr_dev ==
            IF isfinite(pcr)
            THEN LET clamped_pcr == RMax(Rat(4, 10), RMin(Rat(16, 10), pcr))
                     pcr_score == Mul(Div(Sub(Rat(16, 10), clamped_pcr), Rat(12, 10)),
                                      Num(100))
                 IN Sub(pcr_score, Num(50))
            ELSE Num(0)
        skew_dev ==
            IF isfinite(skew)
            THEN LET clamped_skew == RMax(Rat(8, 10), RMin(Rat(12, 10), skew))
                     skew_score == Mul(Div(Sub(clamped_skew, Rat(8, 10)), Rat(4, 10)),
                                       Num(100))
                 IN Sub(skew_score, Num(50))
            ELSE Num(0)
        score == Add(Add(Num(50), pcr_dev), skew_dev)
    IN RMax(Num(0), RMin(Num(100), score))

\* the variant with three RSI bands: [30, 60] full, below 30 half, above 60 none
score_price_momentum_three_bands(tech) ==
    LET r == tech.rsi
        r_score ==
            IF r.k = "nan" \/ Lt(r, Num(30)) THEN Rat(1, 2)
            ELSE IF Gt(r, Num(60)) THEN Num(0)
            ELSE Num(1)
        score ==
            Add(Add(Mul(Rat(35, 100), Num(IF tech.ema_cross = 1 THEN 1 ELSE 0)),
                    Mul(Rat(25, 100), Num(IF tech.price_above_ema_slow = 1 THEN 1 ELSE 0))),
                Add(Mul(Rat(20, 100), r_score),
                    Mul(Rat(20, 100), Num(IF tech.higher_lows_3 = 1 THEN 1 ELSE 0))))
    IN Mul(score, Num(100))

score_price_momentum(tech) ==
    LET w_ema == Rat(35, 100)
        w_price == Rat(25, 100)
        w_rsi == Rat(20, 100)
        w_hl == Rat(20, 100)
        r == tech.rsi
        r_band ==
            IF Lt(r, Num(30)) THEN Num(0)
            ELSE IF Gt(r, Num(80)) THEN Rat(2, 10)
            ELSE IF r.k = "nan" THEN Num(0)       \* max(0.0, nan) is 0.0
            ELSE RMax(Num(0), Sub(Num(1), Div(RAbs(Sub(r, Num(60))), Num(30))))
        r_score ==
            IF tech.rsi_rising # 0 THEN RMin(Num(1), Mul(r_band, Rat(12, 10)))
            ELSE r_band
        score ==
            Add(Add(Mul(w_ema, Num(IF tech.ema_cross = 1 THEN 1 ELSE 0)),
                    Mul(w_price, Num(IF tech.price_above_ema_slow = 1 THEN 1 ELSE 0))),
                Add(Mul(w_rsi, r_score),
                    Mul(w_hl, Num(IF tech.higher_lows_3 = 1 THEN 1 ELSE 0))))
    IN Mul(score, Num(100))

\* the variant in which a missing ratio contributes nothing
score_volume_flow_missing_zero(tech, opt) ==
    LET Mapped(x) ==
            IF isfinite(x) THEN RMax(Num(0), RMin(Num(1), Div(x, Num(2))))
            ELSE Num(0)
        s == Add(Add(Mul(Rat(30, 100), Num(IF tech.vol_spike_up = 1 THEN 1 ELSE 0)),
                     Mul(Rat(30, 100), Num(IF tech.obv_slope_pos = 1 THEN 1 ELSE 0))),
                 Add(Mul(Rat(20, 100), Mapped(opt.call_put_vol_ratio)),
                     Mul(Rat(20, 100), Mapped(opt.call_put_oi_ratio))))
    IN Mul(s, Num(100))

score_volume_flow(tech, opt) ==
    LET w_vol_spike == Rat(30, 100)
        w_obv == Rat(30, 100)
        w_cp_vol == Rat(20, 100)
        w_cp_oi == Rat(20, 100)
        cpv == opt.call_put_vol_ratio
        cpoi == opt.call_put_oi_ratio
        Mapped(x) ==
            IF isfinite(x) THEN RMax(Num(0), RMin(Num(1), Div(x, Num(2))))
            ELSE Rat(1, 2)
        s == Add(Add(Mul(w_vol_spike, Num(IF tech.vol_spike_up = 1 THEN 1 ELSE 0)),
                     Mul(w_obv, Num(IF tech.obv_slope_pos = 1 THEN 1 ELSE 0))),
                 Add(Mul(w_cp_vol, Mapped(cpv)), Mul(w_cp_oi, Mapped(cpoi))))
        total == Add(Add(w_vol_spike, w_obv), Add(w_cp_vol, w_cp_oi))
    IN Mul(Div(s, total), Num(100))

\* BTD_REQUIRE_DAILY_UPTREND is True; hist.recent_high is the highest close of
\* the last BTD_LOOKBACK_DAYS bars
detect_buy_the_dip(tech, hist) ==
    IF ~(tech.ema_cross = 1 /\ tech.price_above_ema_slow = 1) THEN FALSE
    ELSE IF tech.last_close = Num(0) THEN FALSE
    ELSE LET pullback ==
                 IF Gt(hist.recent_high, Num(0))
                 THEN Div(Sub(hist.recent_high, tech.last_close), hist.recent_high)
                 ELSE Num(0)
         IN ~Lt(pullback, Rat(2, 100)) /\ ~Gt(pullback, Rat(8, 100))

-----------------------------------------------------------------------------
(* analyze_ticker and display_results *)

\* the dict analyze_ticker returns; error = TRUE for {"error": "No data"}
ResultRecord(ticker, tech_final, price_score, flow_score, tech, is_btd, mtf_confirm, fundamental, news, opt, opt_score, sent_score, overall) ==
    [error |-> FALSE,
     ticker |-> ticker,
     tech_score |-> Round1(tech_final),
     price_score |-> Round1(price_score),
     flow_score |-> Round1(flow_score),
     last_price |-> tech.last_close,
     rsi |-> Round1(tech.rsi),
     btd |-> is_btd,
     mtf |-> mtf_confirm,
     fundamental |-> fundamental,
     news |-> news,
     opt_metrics |-> opt,
     opt_score |-> Round1(opt_score),
     sent_score |-> Round1(sent_score),
     overall_score |-> Round1(overall)]

\* the variant that returns a neutral result for an empty history
empty_history_return_neutral ==
    ResultRecord("", Num(50), Num(50), Num(50),
                 compute_technical_metrics_from_hist(EmptyBars), FALSE, FALSE,
                 KevinNone, <<>>, AllNaNOptions, Num(50), Num(50), Num(50))

\* return {"error": "No data"}
empty_history_return ==
    [ResultRecord("", Num(0), Num(0), Num(0),
                  compute_technical_metrics_from_hist(EmptyBars), FALSE, FALSE,
                  KevinNone, <<>>, AllNaNOptions, Num(0), Num(0), Num(0))
       EXCEPT !.error = TRUE]

\* the variant that weights options at 10% on top of 70% + 30%
conviction_weights_with_options(has_fund) ==
    IF has_fund
    THEN [w_tech |-> Rat(35, 100), w_fund |-> Rat(35, 100),
          w_news |-> Rat(15, 100), w_opt |-> Rat(15, 100)]
    ELSE [w_tech |-> Rat(7, 10), w_fund |-> Num(0),
          w_news |-> Rat(3, 10), w_opt |-> Rat(1, 10)]

\* the variant whose weights with fundamentals are 40/40/15/15
conviction_weights_unnormalized(has_fund) ==
    IF has_fund
    THEN [w_tech |-> Rat(40, 100), w_fund |-> Rat(40, 100),
          w_news |-> Rat(15, 100), w_opt |-> Rat(15, 100)]
    ELSE [w_tech |-> Rat(7, 10), w_fund |-> Num(0),
          w_news |-> Rat(3, 10), w_opt |-> Num(0)]

\* lines 686-704: the weights by whether valid fundamentals were obtained
conviction_weights(has_fund) ==
    IF has_fund
    THEN [w_tech |-> Rat(35, 100), w_fund |-> Rat(35, 100),
          w_news |-> Rat(15, 100), w_opt |-> Rat(15, 100)]
    ELSE [w_tech |-> Rat(7, 10), w_fund |-> Num(0),
          w_news |-> Rat(3, 10), w_opt |-> Num(0)]

\* the variant that takes any returned record as valid, the skipped one too
fund_valid_any_record(fund_ran, fund_data) ==
    fund_ran /\ fund_data.k = "dict"

\* `fund_data and "error" not in fund_data`
fund_valid(fund_ran, fund_data) ==
    fund_ran /\ fund_data.k = "dict" /\ ~fund_data.error

\* line 706: the weighted sum of the four component scores
overall_conviction(tech_score, fund_score_val, sent_score, opt_score, has_fund) ==
    LET w == conviction_weights(has_fund)
    IN Add(Add(Mul(tech_score, w.w_tech), Mul(fund_score_val, w.w_fund)),
           Add(Mul(sent_score, w.w_news), Mul(opt_score, w.w_opt)))

\* the variant with state shared between calls: once the scan holds a result,
\* the sentiment of later tickers is left at the neutral 50
analyze_ticker_result_shared(ticker, hist, opt, hist_1h, news, fund_ran, fund_data) ==
    LET tech == compute_technical_metrics_from_hist(hist)
        price_score == score_price_momentum(tech)
        flow_score == score_volume_flow(tech, opt)
        opt_score == score_options_sentiment(opt)
        tech_final == Add(Mul(price_score, Rat(6, 10)), Mul(flow_score, Rat(4, 10)))
        mtf_confirm ==
            Gt(score_price_momentum(compute_technical_metrics_from_hist(hist_1h)), Num(60))
        sent_score == IF results # <<>> THEN Num(50) ELSE analyze_sentiment(news)
        valid == fund_valid(fund_ran, fund_data)
        fund_score_val == IF valid THEN fund_score_val_of(fund_data) ELSE Num(50)
        overall == overall_conviction(tech_final, fund_score_val, sent_score, opt_score,
                                      valid)
    IN ResultRecord(ticker, tech_final, price_score, flow_score, tech, detect_buy_the_dip(tech, hist), mtf_confirm, IF valid THEN fund_data ELSE KevinNone, news, opt, opt_score, sent_score, overall)

\* the result of analyze_ticker for a non-empty daily history, from what the
\* provider returned; fund_ran says whether analyze_meet_kevin was called
analyze_ticker_result(ticker, hist, opt, hist_1h, news, fund_ran, fund_data) ==
    LET tech == compute_technical_metrics_from_hist(hist)
        price_score == score_price_momentum(tech)
        flow_score == score_volume_flow(tech, opt)
        opt_score == score_options_sentiment(opt)
        tech_final == Add(Mul(price_score, Rat(6, 10)), Mul(flow_score, Rat(4, 10)))
        is_btd == detect_buy_the_dip(tech, hist)
        tech_1h == compute_technical_metrics_from_hist(hist_1h)
        price_score_1h == score_price_momentum(tech_1h)
        mtf_confirm == Gt(price_score_1h, Num(60))
        sent_score == analyze_sentiment(news)
        valid == fund_valid(fund_ran, fund_data)
        fund_score_val == IF valid THEN fund_score_val_of(fund_data) ELSE Num(50)
        overall == overall_conviction(tech_final, fund_score_val, sent_score, opt_score,
                                      valid)
    IN ResultRecord(ticker, tech_final, price_score, flow_score, tech, is_btd,
                    mtf_confirm, IF valid THEN fund_data ELSE KevinNone, news, opt,
                    opt_score, sent_score, overall)

\* the variant with the bands at 65 and 45
conviction_label_65_45(overall_score) ==
    IF ~Lt(overall_score, Num(65)) THEN "bull"
    ELSE IF Lt(overall_score, Num(45)) THEN "bear"
    ELSE "neutral"

\* the emoji of the "Conviction Label" column: bull, bear or scales
conviction_label(overall_score) ==
    IF ~Lt(overall_score, Num(60)) THEN "bull"
    ELSE IF ~Gt(overall_score, Num(40)) THEN "bear"
    ELSE "neutral"

\* one row of the scanner table
display_row(r) ==
    [Ticker |-> r.ticker,
     Price |-> r.last_price,
     Conviction |-> r.overall_score,
     ConvictionLabel |-> conviction_label(r.overall_score),
     TechScore |-> r.tech_score,
     Sentiment |-> r.sent_score,
     RSI |-> r.rsi,
     BTD |-> r.btd,
     MTF |-> r.mtf,
     KevinFund |-> IF r.fundamental.k = "dict"
                   THEN <<r.fundamental.score2, r.fundamental.max_score>>
                   ELSE <<>>]

NothingShown == [k |-> "none", rows |-> <<>>]

\* what main() renders after the loop: the warning, or display_results(results)
render(rs) ==
    IF rs = <<>> THEN [k |-> "warning", rows |-> <<>>]
    ELSE [k |-> "table", rows |-> [j \in 1..Len(rs) |-> display_row(rs[j])]]

\* the uncaught exception Streamlit shows in place of the results
ShownException == [k |-> "exception", rows |-> <<>>]

-----------------------------------------------------------------------------
(* Inputs: income statements (ticker_obj.financials) *)

\* most periods in a statement
MaxPeriods == 2

LineItems ==
    {"Total Revenue", "TotalRevenue", "Total Operating Expenses", "Operating Expenses"}

\* the two most recent cells of a line item (most recent first), by column dtype
CellPairs(dtype) ==
    IF dtype = "float64"
    THEN {<<Num(120), Num(100)>>, <<Num(110), Num(100)>>, <<Num(100), Num(120)>>,
          <<Num(150), Num(100)>>, <<Num(115), Num(100)>>,
          <<Num(100), Num(0)>>, <<Num(0), Num(0)>>, <<Num(-50), Num(-100)>>,
          <<NaN, Num(100)>>}
    ELSE {<<Num(120), Num(100)>>, <<Num(100), Num(0)>>, <<None, Num(100)>>}

\* a row of n periods: the pair, followed by older periods
RowOf(pair, n) == [c \in 1..n |-> IF c <= 2 THEN pair[c] ELSE Num(90)]

Frame(dtype, ncols, index, cells) ==
    [k |-> "frame", dtype |-> dtype, ncols |-> ncols, index |-> index, cells |-> cells]

\* accessing .financials raised (caught by get_growth_metrics)
FinRaise == [k |-> "raise", dtype |-> "float64", ncols |-> 0, index |-> {},
             cells |-> <<>>]

IsFrameInput(fin) ==
    \/ fin = FinRaise
    \/ \E dtype \in {"float64", "object"}, ncols \in 0..MaxPeriods,
          index \in SUBSET LineItems :
         \E pairs \in [index -> CellPairs(dtype)] :
            fin = Frame(dtype, ncols, index, [r \in index |-> RowOf(pairs[r], ncols)])

\* a statement with a revenue row and an operating-expenses row
SimpleFrame(dtype, rev, opex) ==
    Frame(dtype, Len(rev), {"Total Revenue", "Total Operating Expenses"},
          [r \in {"Total Revenue", "Total Operating Expenses"} |->
              IF r = "Total Revenue" THEN rev ELSE opex])

-----------------------------------------------------------------------------
(* Inputs: the snapshot (stock.info) *)

Info(qt, gm, tc, td, cr, peg, ins, other) ==
    [k |-> "dict", quoteType |-> qt, grossMargins |-> gm, totalCash |-> tc,
     totalDebt |-> td, currentRatio |-> cr, pegRatio |-> peg,
     heldPercentInsiders |-> ins, other |-> other]

\* reading stock.info raised
InfoRaise == [Info("absent", Absent, Absent, Absent, Absent, Absent, Absent, FALSE)
                EXCEPT !.k = "raise"]

\* {}
InfoEmptyDict == Info("absent", Absent, Absent, Absent, Absent, Absent, Absent, FALSE)

\* a dict with none of the fields the checklist reads
InfoNoFields == Info("absent", Absent, Absent, Absent, Absent, Absent, Absent, TRUE)

InfoFieldNames ==
    {"grossMargins", "totalCash", "totalDebt", "currentRatio", "pegRatio",
     "heldPercentInsiders"}

\* info with the key f removed
WithoutKey(info, f) == [[info EXCEPT ![f] = Absent] EXCEPT !.other = TRUE]

-----------------------------------------------------------------------------
(* Single calls of analyze_meet_kevin and get_growth_metrics *)

\* locals of analyze_ticker before anything was fetched
IdleCur ==
    [pos |-> 0, returned |-> "none", hist |-> EmptyBars, opt |-> AllNaNOptions,
     hist_1h |-> EmptyBars, news |-> <<>>, fund_data |-> KevinNone,
     result |-> empty_history_return]

NoFeed == [hists |-> {}, chains |-> {}, hists_1h |-> {}, news |-> {}, infos |-> {},
           fins |-> {}]

ScanIdle ==
    /\ tickers = <<>>
    /\ feed = NoFeed
    /\ run_fundamental = FALSE
    /\ i = 0
    /\ cur = IdleCur
    /\ results = <<>>
    /\ ui = NothingShown
    /\ fetched = <<>>
    /\ used = <<>>

\* snapshots outside the field-by-field enumeration
KevinSpecialInfos ==
    {InfoRaise, InfoEmptyDict, InfoNoFields,
     Info("ETF", Rat(50, 100), Num(5), Num(3), Num(2), Rat(50, 100), Rat(20, 100), TRUE)}

\* statements whose revenue growth is None, 20, 10, 50, 15 and +inf
KevinFins ==
    {FinRaise,
     SimpleFrame("float64", <<Num(120), Num(100)>>, <<Num(110), Num(100)>>),
     SimpleFrame("float64", <<Num(110), Num(100)>>, <<Num(120), Num(100)>>),
     SimpleFrame("float64", <<Num(150), Num(100)>>, <<Num(150), Num(100)>>),
     SimpleFrame("float64", <<Num(115), Num(100)>>, <<NaN, Num(100)>>),
     SimpleFrame("float64", <<Num(100), Num(0)>>, <<Num(100), Num(100)>>)}

InitKevin ==
    /\ ScanIdle
    /\ pc = "call"
    /\ \E fin \in KevinFins :
        \/ \E info \in KevinSpecialInfos : arg = [info |-> info, fin |-> fin]
        \/ \E gm \in {Absent, None, NaN, Str, Rat(20, 100), Rat(30, 100), Rat(40, 100),
                        Rat(50, 100)},
              tc \in {Absent, None, NaN, Num(5)},
              td \in {Absent, Str, Num(3), Num(7)},
              cr \in {Absent, None, Rat(3, 2), Num(2)},
              peg \in {Absent, None, NaN, Str, Rat(-1, 2), Num(0), Rat(1, 2), Num(1),
                       Rat(3, 2)},
              ins \in {Absent, None, NaN, Rat(5, 100), Rat(10, 100), Rat(20, 100)} :
             arg = [info |-> Info("EQUITY", gm, tc, td, cr, peg, ins, TRUE),
                    fin |-> fin]
    /\ ret = KevinNone

CallKevin ==
    /\ pc = "call"
    /\ ret' = analyze_meet_kevin(arg.info, arg.fin)
    /\ pc' = "returned"
    /\ UNCHANGED <<arg, scan_vars>>

NextKevin == CallKevin

SpecKevin == InitKevin /\ [][NextKevin]_vars

InitGrowth ==
    /\ ScanIdle
    /\ pc = "call"
    /\ IsFrameInput(arg)
    /\ ret = GrowthNone

\* get_growth_metrics, followed by the growth check analyze_meet_kevin makes of it
CallGrowth ==
    /\ pc = "call"
    /\ ret' = [metrics |-> get_growth_metrics(arg),
               check |-> growth_check(get_growth_metrics(arg).rev)]
    /\ pc' = "returned"
    /\ UNCHANGED <<arg, scan_vars>>

NextGrowth == CallGrowth

SpecGrowth == InitGrowth /\ [][NextGrowth]_vars

-----------------------------------------------------------------------------
(* Single calls of compute_technical_metrics_from_hist on a frame with only a
   Close column *)

\* most bars in a close series given to rsi
MaxBars == 16

\* most bars in a close series given to ema
MaxEmaBars == 4

\* a trend of n bars with one bar displaced: 50 + step * t, and d more at bar p
TrendSeries(n, step, p, d) ==
    [t \in 1..n |-> 50 + step * t + (IF t = p THEN d ELSE 0)]

InitRsi ==
    /\ ScanIdle
    /\ pc = "call"
    /\ \E n \in 1..MaxBars, step \in {-1, 0, 1, 2}, p \in 0..MaxBars, d \in {-3, 3} :
        /\ p <= n
        /\ arg = [close |-> TrendSeries(n, step, p, d)]
    /\ ret = <<>>

\* lines 222-224 and the tech dict built from them; the EMA comparisons of
\* lines 219-220 may come out either way
CallRsi ==
    /\ pc = "call"
    /\ \E ema_cross \in {0, 1}, price_above \in {0, 1} :
        ret' = [r |-> rsi(arg.close, RSI_PERIOD),
                tech |-> compute_technical_metrics_from_hist(
                             CloseOnlyBars(arg.close,
                                           [ema_cross |-> ema_cross,
                                            price_above_ema_slow |-> price_above],
                                           rsi_metrics(arg.close)))]
    /\ pc' = "returned"
    /\ UNCHANGED <<arg, scan_vars>>

NextRsi == CallRsi

SpecRsi == InitRsi /\ [][NextRsi]_vars

InitEma ==
    /\ ScanIdle
    /\ pc = "call"
    /\ \E n \in 1..MaxEmaBars :
        \E close \in [1..n -> {1, 2, 3, 5}] : arg = [close |-> close]
    /\ ret = <<>>

\* lines 216-220 and the tech dict built from them
CallEma ==
    /\ pc = "call"
    /\ ret' = [ema_fast |-> ema_metrics(arg.close).ema_fast,
               ema_slow |-> ema_metrics(arg.close).ema_slow,
               tech |-> compute_technical_metrics_from_hist(
                            CloseOnlyBars(arg.close, ema_metrics(arg.close),
                                          rsi_metrics(arg.close)))]
    /\ pc' = "returned"
    /\ UNCHANGED <<arg, scan_vars>>

NextEma == CallEma

SpecEma == InitEma /\ [][NextEma]_vars

-----------------------------------------------------------------------------
(* Single calls of the scoring functions *)

\* most headlines in a news list
MaxNews == 3

RsiValues ==
    {NaN, Num(0), Num(20), Num(29), Num(30), Num(45), Num(60), Num(61), Num(70),
     Num(80), Num(81), Num(90), Num(100)}

\* a ratio or IV skew as compute_options_metrics stores it
RatioValues ==
    {NaN, PosInf, Num(0), Rat(3, 10), Rat(1, 2), Rat(9, 10), Num(1), Rat(11, 10),
     Num(2), Num(3)}

ComponentScores == {Num(0), Num(25), Num(50), Rat(636, 10), Num(100)}

InitScores ==
    /\ ScanIdle
    /\ pc = "call"
    /\ ret = <<>>
    /\ \/ \E hist \in {EmptyBars} \cup
                { Bars(e, p, r, FALSE, up, hl, 0, 0, Num(95), Num(100)) :
                    e \in {0, 1}, p \in {0, 1}, r \in RsiValues, up \in {0, 1},
                    hl \in {0, 1} } :
            arg = [fn |-> "score_price_momentum",
                   tech |-> compute_technical_metrics_from_hist(hist)]
       \/ \E vs \in {0, 1}, obv \in {0, 1}, cpv \in RatioValues, cpoi \in RatioValues :
            arg = [fn |-> "score_volume_flow",
                   tech |-> compute_technical_metrics_from_hist(
                                Bars(0, 0, Num(50), FALSE, 0, 0, obv, vs, Num(95), Num(100))),
                   opt |-> [AllNaNOptions EXCEPT !.call_put_vol_ratio = cpv,
                                                 !.call_put_oi_ratio = cpoi]]
       \/ \E pcr \in RatioValues, skew \in RatioValues :
            arg = [fn |-> "score_options_sentiment",
                   opt |-> [AllNaNOptions EXCEPT !.pcr_volume = pcr, !.iv_skew = skew]]
       \/ \E n \in 0..MaxNews :
            \E news \in [1..n -> [p_count : 0..2, n_count : 0..2]] :
                arg = [fn |-> "analyze_sentiment", news |-> news]
       \/ \E t \in ComponentScores, f \in ComponentScores, n \in ComponentScores,
             o \in ComponentScores, has_fund \in BOOLEAN :
            arg = [fn |-> "overall", tech_score |-> t,
                   fund_score_val |-> IF has_fund THEN f ELSE Num(50),
                   sent_score |-> n, opt_score |-> o, has_fund |-> has_fund]

CallMomentum ==
    /\ pc = "call"
    /\ arg.fn = "score_price_momentum"
    /\ ret' = score_price_momentum(arg.tech)
    /\ pc' = "returned"
    /\ UNCHANGED <<arg, scan_vars>>

CallFlow ==
    /\ pc = "call"
    /\ arg.fn = "score_volume_flow"
    /\ ret' = score_volume_flow(arg.tech, arg.opt)
    /\ pc' = "returned"
    /\ UNCHANGED <<arg, scan_vars>>

CallOptionsScore ==
    /\ pc = "call"
    /\ arg.fn = "score_options_sentiment"
    /\ ret' = score_options_sentiment(arg.opt)
    /\ pc' = "returned"
    /\ UNCHANGED <<arg, scan_vars>>

CallSentiment ==
    /\ pc = "call"
    /\ arg.fn = "analyze_sentiment"
    /\ ret' = analyze_sentiment(arg.news)
    /\ pc' = "returned"
    /\ UNCHANGED <<arg, scan_vars>>

\* lines 686-707: the weighted sum, and its rounding to one decimal
CallOverall ==
    /\ pc = "call"
    /\ arg.fn = "overall"
    /\ ret' = Round1(overall_conviction(arg.tech_score, arg.fund_score_val,
                                        arg.sent_score, arg.opt_score, arg.has_fund))
    /\ pc' = "returned"
    /\ UNCHANGED <<arg, scan_vars>>

NextScores ==
    \/ CallMomentum
    \/ CallFlow
    \/ CallOptionsScore
    \/ CallSentiment
    \/ CallOverall

SpecScores == InitScores /\ [][NextScores]_vars

-----------------------------------------------------------------------------
(* Claims about analyze_meet_kevin, checked under SpecKevin *)

Returned == pc = "returned"

\* the call returned the scored record of an equity
KevinScored == Returned /\ ret.k = "dict" /\ ~ret.error

\* every field the checklist reads is missing, and there is no revenue growth
AllFundamentalsAbsent ==
    /\ arg.info.k = "dict"
    /\ ~InfoEmpty(arg.info)
    /\ \A f \in InfoFieldNames : arg.info[f].k = "absent"
    /\ get_growth_metrics(arg.fin).rev = None

\* C4 (as claimed): an equity whose fundamental fields are all absent gets the
\* neutral fundamental contribution, 50 on the 0-100 scale.
C4_AbsentFieldsScoreNeutral ==
    (Returned /\ AllFundamentalsAbsent)
        => /\ KevinScored
           /\ RatEq(fund_score_val_of(ret), Num(50))

\* a field that is present but null or not a number
Malformed(x) == x.k \in {"none", "nan", "str"}

\* info with every null or non-numeric field removed
WithoutMalformed(info) ==
    [f \in DOMAIN info |->
        IF f \in InfoFieldNames /\ Malformed(info[f]) THEN Absent ELSE info[f]]

\* C5 (as claimed): a snapshot field that is present but null or not a number
\* is treated exactly like an absent one: analyze_meet_kevin raises nothing
\* and returns the record it returns with those keys missing.
C5_MalformedLikeAbsent ==
    (Returned /\ arg.info.k = "dict")
        => /\ ret.k # "raise"
           /\ ret = analyze_meet_kevin(WithoutMalformed(arg.info), arg.fin)

\* the outcome a check records for a finite value under inclusive cutoffs
InclusiveOutcome(v, good, neutral) ==
    IF ~Lt(v, Num(good)) THEN "True"
    ELSE IF ~Lt(v, Num(neutral)) THEN "partial" ELSE "False"

\* the outcome under strict cutoffs
StrictOutcome(v, good, neutral) ==
    IF Gt(v, Num(good)) THEN "True"
    ELSE IF Gt(v, Num(neutral)) THEN "partial" ELSE "False"

-----------------------------------------------------------------------------
(* Claims about get_growth_metrics, checked under SpecGrowth *)

\* the revenue row get_growth_metrics reads, when the statement has one
HasRevenueRow == arg.k = "frame" /\ ~FrameEmpty(arg) /\ rev_key(arg) \in arg.index

HasOpexRow == arg.k = "frame" /\ ~FrameEmpty(arg) /\ opex_key(arg) \in arg.index

\* fewer than two periods of revenue, an empty statement or no revenue line item
NoTwoRevenuePeriods == ~HasRevenueRow \/ arg.ncols < 2

\* C8: with fewer than two periods of revenue (or an empty statement, or no
\* revenue line item) get_growth_metrics returns None for revenue growth, and
\* the growth check records a non-pass with value 0.
C8_OnePeriodNoGrowth ==
    (Returned /\ NoTwoRevenuePeriods)
        => /\ ret.metrics.rev = None
           /\ ret.check.pass = "False"
           /\ ret.check.val = Num(0)
           /\ ret.check.add2 = 0

\* a statement with a revenue row of exactly one period went through the check
C8_Witness ==
    /\ Returned
    /\ HasRevenueRow
    /\ arg.ncols = 1
    /\ ret.metrics.rev = None
    /\ ret.check.pass = "False"

Finite(x) == x.k \notin {"inf", "-inf", "nan"}

\* C9 (as claimed): a zero previous period gives no value: neither growth is
\* ever infinite or NaN, and a zero previous revenue never passes the growth
\* check.
C9_ZeroPreviousNoValue ==
    Returned =>
        /\ Finite(ret.metrics.rev)
        /\ Finite(ret.metrics.opex)
        /\ (HasRevenueRow /\ arg.ncols >= 2 /\ arg.cells[rev_key(arg)][2] = Num(0))
              => ret.check.pass = "False"

\* (latest - previous) / |previous| * 100
PctChangeAbs(latest, previous) ==
    Rat((latest.n - previous.n) * 100, Abs(previous.n))

\* C10 (as claimed): for two periods with a non-zero previous value the growth
\* returned is (latest - previous) / |previous| * 100.
C10_GrowthOverAbsPrevious ==
    Returned =>
        /\ (/\ HasRevenueRow /\ arg.ncols >= 2
            /\ IsNum(arg.cells[rev_key(arg)][1])
            /\ IsNum(arg.cells[rev_key(arg)][2])
            /\ arg.cells[rev_key(arg)][2] # Num(0)
            /\ ret.metrics.rev # None)
              => ret.metrics.rev = PctChangeAbs(arg.cells[rev_key(arg)][1],
                                                arg.cells[rev_key(arg)][2])
        /\ (/\ HasOpexRow /\ arg.ncols >= 2
            /\ IsNum(arg.cells[opex_key(arg)][1])
            /\ IsNum(arg.cells[opex_key(arg)][2])
            /\ arg.cells[opex_key(arg)][2] # Num(0)
            /\ ret.metrics.opex # None)
              => ret.metrics.opex = PctChangeAbs(arg.cells[opex_key(arg)][1],
                                                 arg.cells[opex_key(arg)][2])

-----------------------------------------------------------------------------
(* The scan: main() pressing "Start Scan", one analyze_ticker call per ticker *)

\* most tickers in a scanned list
NumTickers == 2

\* the symbol at a list position (a list of three holds a duplicate, as the
\* presets do)
SymbolAt(j) == IF j % 2 = 1 THEN "TSLA" ELSE "NVDA"

Call(name) == [pos |-> i, call |-> name]

\* what analyze_ticker fetched for the call whose locals are c
FetchedData(c) ==
    [hist |-> c.hist, opt |-> c.opt, hist_1h |-> c.hist_1h, news |-> c.news,
     fund_data |-> c.fund_data]

\* the variant of the loop step that puts the newest result first
LoopStep_newest_first(res) ==
    LET rs == IF res.error THEN results ELSE <<res>> \o results
    IN /\ results' = rs
       /\ used' = IF res.error THEN used ELSE Append(used, FetchedData(cur'))
       /\ IF i < Len(tickers)
          THEN /\ i' = i + 1
               /\ pc' = "history"
               /\ ui' = ui
          ELSE /\ i' = i
               /\ pc' = "done"
               /\ ui' = render(rs)

\* the end of one loop iteration: `if "error" not in res: results.append(res)`,
\* then the next ticker, or the rendering after the loop
LoopStep(res) ==
    LET rs == IF res.error THEN results ELSE Append(results, res)
    IN /\ results' = rs
       /\ used' = IF res.error THEN used ELSE Append(used, FetchedData(cur'))
       /\ IF i < Len(tickers)
          THEN /\ i' = i + 1
               /\ pc' = "history"
               /\ ui' = ui
          ELSE /\ i' = i
               /\ pc' = "done"
               /\ ui' = render(rs)

\* run_btn: results = [], then the loop or, for an empty list, the warning
StartScan ==
    /\ pc = "start"
    /\ results' = <<>>
    /\ used' = <<>>
    /\ IF tickers = <<>>
       THEN /\ pc' = "done"
            /\ ui' = render(<<>>)
            /\ i' = i
       ELSE /\ pc' = "history"
            /\ ui' = ui
            /\ i' = 1
    /\ UNCHANGED <<tickers, feed, run_fundamental, cur, fetched, arg, ret>>

\* the variant of the first step without the early return: the call goes on
\* to the option chain with an empty history too
FetchHistory_no_early_return ==
    /\ pc = "history"
    /\ \E hist \in feed.hists :
        /\ fetched' = Append(fetched, Call("history_1d"))
        /\ cur' = [IdleCur EXCEPT !.pos = i, !.hist = hist, !.returned = "pending"]
        /\ pc' = "options"
        /\ UNCHANGED <<i, results, ui, used>>
    /\ UNCHANGED <<tickers, feed, run_fundamental, arg, ret>>

\* analyze_ticker, lines 619-621: the daily history; an empty one returns
FetchHistory ==
    /\ pc = "history"
    /\ \E hist \in feed.hists :
        /\ fetched' = Append(fetched, Call("history_1d"))
        /\ IF hist.k = "empty"
           THEN /\ cur' = [IdleCur EXCEPT !.pos = i, !.hist = hist,
                                          !.returned = "returned",
                                          !.result = empty_history_return]
                /\ LoopStep(empty_history_return)
           ELSE /\ cur' = [IdleCur EXCEPT !.pos = i, !.hist = hist,
                                          !.returned = "pending"]
                /\ pc' = "options"
                /\ UNCHANGED <<i, results, ui, used>>
    /\ UNCHANGED <<tickers, feed, run_fundamental, arg, ret>>

\* lines 623-636: the option chain of the nearest expiry, and the scores
FetchOptions ==
    /\ pc = "options"
    /\ \E chain \in feed.chains :
        cur' = [cur EXCEPT !.opt = compute_options_metrics(chain)]
    /\ fetched' = Append(fetched, Call("options"))
    /\ pc' = "history_1h"
    /\ UNCHANGED <<tickers, feed, run_fundamental, i, results, ui, used, arg, ret>>

\* lines 639-659: the hourly history
FetchHistory1h ==
    /\ pc = "history_1h"
    /\ \E hist_1h \in feed.hists_1h : cur' = [cur EXCEPT !.hist_1h = hist_1h]
    /\ fetched' = Append(fetched, Call("history_1h"))
    /\ pc' = "news"
    /\ UNCHANGED <<tickers, feed, run_fundamental, i, results, ui, used, arg, ret>>

\* lines 662-667: the news; with run_fundamental false the call goes on to
\* its return (lines 670-709)
FetchNews ==
    /\ pc = "news"
    /\ fetched' = Append(fetched, Call("news"))
    /\ \E news \in feed.news :
        IF run_fundamental
        THEN /\ cur' = [cur EXCEPT !.news = news]
             /\ pc' = "fundamental"
             /\ UNCHANGED <<i, results, ui, used>>
        ELSE LET res == analyze_ticker_result(tickers[i], cur.hist, cur.opt,
                                              cur.hist_1h, news, FALSE, KevinNone)
             IN /\ cur' = [cur EXCEPT !.news = news, !.returned = "returned",
                                      !.result = res]
                /\ LoopStep(res)
    /\ UNCHANGED <<tickers, feed, run_fundamental, arg, ret>>

\* lines 673-709: analyze_meet_kevin (snapshot and income statement), then the
\* return; an exception leaving analyze_meet_kevin leaves analyze_ticker and
\* main() as well
FetchFundamental ==
    /\ pc = "fundamental"
    /\ fetched' = Append(fetched, Call("fundamentals"))
    /\ \E info \in feed.infos, fin \in feed.fins :
        LET fund_data == analyze_meet_kevin(info, fin)
            res == analyze_ticker_result(tickers[i], cur.hist, cur.opt, cur.hist_1h,
                                         cur.news, TRUE, fund_data)
        IN IF fund_data.k = "raise"
           THEN /\ cur' = [cur EXCEPT !.fund_data = fund_data, !.returned = "raised"]
                /\ pc' = "crashed"
                /\ ui' = ShownException
                /\ UNCHANGED <<i, results, used>>
           ELSE /\ cur' = [cur EXCEPT !.fund_data = fund_data,
                                      !.returned = "returned", !.result = res]
                /\ LoopStep(res)
    /\ UNCHANGED <<tickers, feed, run_fundamental, arg, ret>>

Next ==
    \/ StartScan
    \/ FetchHistory
    \/ FetchOptions
    \/ FetchHistory1h
    \/ FetchNews
    \/ FetchFundamental

\* bars in an uptrend after a 5% pullback, and bars in a downtrend
BullBars == Bars(1, 1, Num(55), FALSE, 1, 1, 1, 1, Num(95), Num(100))

BearBars == Bars(0, 0, Num(25), FALSE, 0, 0, 0, 0, Num(50), Num(80))

Chain(cv, pv, coi, poi, call_iv, put_iv) ==
    [k |-> "chain", cv |-> cv, pv |-> pv, coi |-> coi, poi |-> poi,
     call_iv |-> call_iv, put_iv |-> put_iv]

NoChain == [Chain(0, 0, 0, 0, NaN, NaN) EXCEPT !.k = "none"]

Headline(p_count, n_count) == [p_count |-> p_count, n_count |-> n_count]

\* an equity passing every check, and one with a null gross margin
StrongInfo ==
    Info("EQUITY", Rat(50, 100), Num(5), Num(3), Num(2), Rat(1, 2), Rat(20, 100), TRUE)

NullMarginInfo ==
    Info("EQUITY", None, Num(5), Num(3), Num(2), Rat(1, 2), Rat(20, 100), TRUE)

EtfInfo ==
    Info("ETF", Absent, Absent, Absent, Absent, Absent, Absent, TRUE)

\* revenue +50%, operating expenses +10%
GrowingFrame ==
    SimpleFrame("float64", <<Num(150), Num(100)>>, <<Num(110), Num(100)>>)

\* what the provider may return during a scan of several tickers
ScanFeed ==
    [hists    |-> {EmptyBars, BullBars, BearBars},
     chains   |-> {NoChain, Chain(3, 1, 3, 1, Rat(4, 10), Rat(2, 10))},
     hists_1h |-> {BullBars},
     news     |-> {<<>>, <<Headline(2, 0), Headline(1, 0)>>},
     infos    |-> {EtfInfo, StrongInfo, NullMarginInfo},
     fins     |-> {GrowingFrame}]

Init ==
    /\ \E n \in 0..NumTickers : tickers = [j \in 1..n |-> SymbolAt(j)]
    /\ feed = ScanFeed
    /\ run_fundamental \in BOOLEAN
    /\ pc = "start"
    /\ i = 0
    /\ cur = IdleCur
    /\ results = <<>>
    /\ ui = NothingShown
    /\ fetched = <<>>
    /\ used = <<>>
    /\ arg = <<>>
    /\ ret = <<>>

Spec == Init /\ [][Next]_vars

\* what the provider may return for one ticker
TickerFeed ==
    [hists |->
        {EmptyBars} \cup
        { Bars(f[1], f[2], r[1], r[2], r[3], f[3], v, v, Num(95), Num(100)) :
            f \in {<<0, 0, 0>>, <<1, 1, 1>>, <<1, 0, 0>>},
            r \in {<<Num(20), FALSE, 0>>, <<Num(60), FALSE, 1>>,
                   <<Num(90), FALSE, 1>>, <<NaN, FALSE, 1>>, <<NaN, TRUE, 0>>},
            v \in {0, 1} },
     chains |->
        {NoChain, Chain(3, 1, 3, 1, Rat(4, 10), Rat(2, 10)),
         Chain(1, 3, 1, 3, Rat(2, 10), Rat(4, 10)), Chain(0, 3, 0, 3, NaN, NaN),
         Chain(3, 0, 3, 0, Rat(3, 10), NaN), Chain(3, 3, 0, 0, Rat(3, 10), Rat(3, 10))},
     hists_1h |-> {EmptyBars, BullBars},
     news |-> {<<>>, <<Headline(1, 1)>>, <<Headline(2, 0), Headline(1, 0)>>,
               <<Headline(0, 2), Headline(0, 2)>>},
     infos |-> {InfoRaise, EtfInfo, StrongInfo, NullMarginInfo, InfoNoFields,
                Info("EQUITY", Rat(30, 100), Num(3), Num(5), Num(2), Rat(12, 10),
                     Rat(7, 100), TRUE)},
     fins |-> {FinRaise, GrowingFrame}]

\* the scan of a single ticker, over a wide range of provider data
InitTicker ==
    /\ tickers = <<"TSLA">>
    /\ feed = TickerFeed
    /\ run_fundamental \in BOOLEAN
    /\ pc = "start"
    /\ i = 0
    /\ cur = IdleCur
    /\ results = <<>>
    /\ ui = NothingShown
    /\ fetched = <<>>
    /\ used = <<>>
    /\ arg = <<>>
    /\ ret = <<>>

SpecTicker == InitTicker /\ [][Next]_vars

-----------------------------------------------------------------------------
(* Claims about analyze_ticker and the scan, checked under SpecTicker and Spec *)

\* the call of analyze_ticker for the current ticker returned a scored result
ScoredResult == cur.returned = "returned" /\ ~cur.result.error

InRange0To100(x) == IsNum(x) /\ ~Lt(x, Num(0)) /\ ~Gt(x, Num(100))

\* C1: every result analyze_ticker returns without an "error" key has an
\* overall_score in [0, 100], whatever the history, the option chain, the news
\* and the snapshot were (NaN and missing values included), with and without
\* the fundamental analysis.
C1_OverallScoreInRange ==
    /\ ScoredResult => InRange0To100(cur.result.overall_score)
    /\ \A j \in 1..Len(results) : InRange0To100(results[j].overall_score)

\* a result at the upper end of the range, from the branch without fundamentals
C1_Witness ==
    /\ ScoredResult
    /\ ~run_fundamental
    /\ cur.result.overall_score = Num(100)
    /\ results = <<cur.result>>

\* analyze_ticker returned for a ticker whose daily history was empty
EmptyHistoryReturned == cur.returned = "returned" /\ cur.hist.k = "empty"

Shown == ui.k = "table"

\* C3 (as stated): the label shown is bullish for a score >= 65, neutral for
\* 45 <= score < 65 and bearish for a score < 45.
C3_Bands65And45 ==
    Shown =>
        \A j \in 1..Len(ui.rows) :
            ui.rows[j].ConvictionLabel =
                IF ~Lt(ui.rows[j].Conviction, Num(65)) THEN "bull"
                ELSE IF ~Lt(ui.rows[j].Conviction, Num(45)) THEN "neutral"
                ELSE "bear"

\* C3 (corrected): the label shown depends only on the overall score of the
\* row, with the bands: score >= 60 bullish, score <= 40 bearish, and
\* 40 < score < 60 neutral.
C3_Bands60And40 ==
    Shown =>
        /\ Len(ui.rows) = Len(results)
        /\ \A j \in 1..Len(ui.rows) :
            /\ ui.rows[j].Conviction = results[j].overall_score
            /\ ui.rows[j].ConvictionLabel =
                IF ~Lt(ui.rows[j].Conviction, Num(60)) THEN "bull"
                ELSE IF ~Gt(ui.rows[j].Conviction, Num(40)) THEN "bear"
                ELSE "neutral"

\* a displayed score in [60, 65) labelled bullish
C3_Witness ==
    /\ Shown
    /\ \E j \in 1..Len(ui.rows) :
        /\ ~Lt(ui.rows[j].Conviction, Num(60))
        /\ Lt(ui.rows[j].Conviction, Num(65))
        /\ ui.rows[j].ConvictionLabel = "bull"

\* C6: during a scan no failure while fetching, extracting or scoring a ticker
\* leaves analyze_ticker as an exception: the scan is never ended by one, and
\* no exception is shown in place of the results.
C6_NoExceptionLeavesAnalyzeTicker ==
    /\ cur.returned # "raised"
    /\ pc # "crashed"
    /\ ui.k # "exception"

-----------------------------------------------------------------------------
(* Claims about the line-item lookup of get_growth_metrics, under SpecGrowth *)

RevenueAliases == <<"Total Revenue", "TotalRevenue">>

OpexAliases == <<"Total Operating Expenses", "Operating Expenses">>

\* some alias of the list is a row of the statement
AnyPresent(aliases) == \E a \in 1..Len(aliases) : aliases[a] \in arg.index

\* the first alias of the list that is a row of the statement
FirstPresent(aliases) ==
    aliases[CHOOSE a \in 1..Len(aliases) :
                /\ aliases[a] \in arg.index
                /\ \A b \in 1..(a - 1) : aliases[b] \notin arg.index]

\* the growth of the two most recent periods of a row
RowGrowth(row) == pct_change(arg.cells[row][1], arg.cells[row][2], arg.dtype)

\* C11: revenue is read from 'Total Revenue' if present, else 'TotalRevenue';
\* opex from 'Total Operating Expenses' if present, else 'Operating Expenses':
\* a growth that is returned is the growth of the first present alias, and
\* with no alias present the quantity is None.
C11_FirstPresentAliasWins ==
    Returned =>
        /\ ~AnyPresent(RevenueAliases) => ret.metrics.rev = None
        /\ ~AnyPresent(OpexAliases) => ret.metrics.opex = None
        /\ ret.metrics.rev # None =>
            /\ AnyPresent(RevenueAliases)
            /\ ret.metrics.rev = RowGrowth(FirstPresent(RevenueAliases))
        /\ ret.metrics.opex # None =>
            /\ AnyPresent(OpexAliases)
            /\ ret.metrics.opex = RowGrowth(FirstPresent(OpexAliases))

\* both revenue aliases are rows, with different growths: the first one wins
C11_Witness ==
    /\ Returned
    /\ arg.k = "frame"
    /\ {"Total Revenue", "TotalRevenue"} \subseteq arg.index
    /\ arg.ncols >= 2
    /\ RowGrowth("Total Revenue") # RowGrowth("TotalRevenue")
    /\ ret.metrics.rev # None
    /\ ret.metrics.rev = RowGrowth("Total Revenue")

\* the revenue growth can be computed from the statement
RevenueComputable ==
    /\ arg.k = "frame"
    /\ AnyPresent(RevenueAliases)
    /\ arg.ncols >= 2
    /\ RowGrowth(FirstPresent(RevenueAliases)) # Raise

\* C12: a failure of the opex derivation (missing row, too few periods, an
\* error raised while computing) never discards a computable revenue growth.
C12_OpexFailureKeepsRevenue ==
    (Returned /\ RevenueComputable) =>
        ret.metrics.rev = RowGrowth(FirstPresent(RevenueAliases))

-----------------------------------------------------------------------------
(* Claims about rsi and ema, checked under SpecRsi and SpecEma *)

StrictlyIncreasing(close) == \A t \in 2..Len(close) : close[t] > close[t - 1]

\* C13: for a strictly increasing close series of at least RSI_PERIOD + 1 bars
\* the last value of rsi is 100, and tech['rsi'] is that value.
C13_RsiSaturatesAt100 ==
    (Returned /\ StrictlyIncreasing(arg.close) /\ Len(arg.close) >= RSI_PERIOD + 1) =>
        /\ ret.r[Len(arg.close)] = Num(100)
        /\ ret.tech.rsi = Num(100)

\* the shortest such series: RSI_PERIOD + 1 strictly increasing bars
C13_Witness ==
    /\ Returned
    /\ StrictlyIncreasing(arg.close)
    /\ Len(arg.close) = RSI_PERIOD + 1
    /\ ret.r[RSI_PERIOD] = NaN
    /\ ret.tech.rsi = Num(100)

RECURSIVE SumCloses(_, _)
SumCloses(close, n) == IF n = 0 THEN 0 ELSE close[n] + SumCloses(close, n - 1)

\* the arithmetic mean of all closes
MeanClose(close) == Rat(SumCloses(close, Len(close)), Len(close))

RECURSIVE Pow(_, _)
Pow(b, e) == IF e = 0 THEN 1 ELSE b * Pow(b, e - 1)

\* (span + 1)^(n - 1) times the exponentially weighted sum of n closes:
\* weight (1 - alpha)^(n - 1) on the first close and alpha * (1 - alpha)^(n - t)
\* on close t >= 2, with alpha = 2 / (span + 1)
RECURSIVE WeightedCloses(_, _, _)
WeightedCloses(close, span, t) ==
    LET n == Len(close)
    IN IF t = 1 THEN Pow(span - 1, n - 1) * close[1]
       ELSE 2 * Pow(span - 1, n - t) * Pow(span + 1, t - 2) * close[t]
            + WeightedCloses(close, span, t - 1)

-----------------------------------------------------------------------------
(* Claims about the scoring functions, checked under SpecScores *)

ReturnedFrom(fn) == pc = "returned" /\ arg.fn = fn

\* the part of the price score that comes from the RSI: the score less the
\* 35, 25 and 20 points of the EMA cross, the price above the slow EMA and the
\* higher lows
RsiContribution ==
    Sub(ret, Num(35 * (IF arg.tech.ema_cross = 1 THEN 1 ELSE 0)
                 + 25 * (IF arg.tech.price_above_ema_slow = 1 THEN 1 ELSE 0)
                 + 20 * (IF arg.tech.higher_lows_3 = 1 THEN 1 ELSE 0)))

\* C15 (as stated): an RSI in [30, 60] is the positive signal, an RSI above 60
\* the negative one (the lowest contribution, 0), and an RSI below 30 is
\* neutral: it never gets the lowest contribution.
C15_RsiThreeBands ==
    ReturnedFrom("score_price_momentum") =>
        /\ (~Lt(arg.tech.rsi, Num(30)) /\ ~Gt(arg.tech.rsi, Num(60))
            /\ IsNum(arg.tech.rsi)) => Gt(RsiContribution, Num(0))
        /\ Gt(arg.tech.rsi, Num(60)) => RsiContribution = Num(0)
        /\ Lt(arg.tech.rsi, Num(30)) => Gt(RsiContribution, Num(0))

\* r_score of the corrected claim, before the rising-RSI factor
RsiTent(r) ==
    IF r.k = "nan" THEN Num(0)
    ELSE IF Lt(r, Num(30)) THEN Num(0)
    ELSE IF Gt(r, Num(80)) THEN Rat(2, 10)
    ELSE IF Gt(r, Num(60)) THEN Sub(Num(1), Div(Sub(r, Num(60)), Num(30)))
    ELSE Sub(Num(1), Div(Sub(Num(60), r), Num(30)))

\* C15 (corrected): the RSI contributes 20 points times r_score, where r_score
\* is 0 for RSI < 30 (the lowest contribution), 0.2 for RSI > 80 and
\* 1 - |RSI - 60| / 30 for RSI in [30, 80]; a rising RSI multiplies r_score by
\* 1.2, capped at 1.
C15_RsiTentAroundSixty ==
    ReturnedFrom("score_price_momentum") =>
        /\ RsiContribution =
              Mul(Num(20),
                  IF arg.tech.rsi_rising # 0
                  THEN RMin(Num(1), Mul(RsiTent(arg.tech.rsi), Rat(12, 10)))
                  ELSE RsiTent(arg.tech.rsi))
        /\ Lt(arg.tech.rsi, Num(30)) => RsiContribution = Num(0)
        /\ arg.tech.rsi = Num(60) => RsiContribution = Num(20)

\* an oversold RSI of 20 contributes nothing, the lowest contribution
C15_Witness ==
    /\ ReturnedFrom("score_price_momentum")
    /\ arg.tech.rsi = Num(20)
    /\ RsiContribution = Num(0)

\* every component score of the call equals v (the fundamental score counts
\* only when fundamentals were obtained)
AllComponents(v) ==
    /\ arg.tech_score = v
    /\ arg.sent_score = v
    /\ arg.opt_score = v
    /\ arg.has_fund => arg.fund_score_val = v

\* C16: in both branches the weights are non-negative and sum to 1, so that
\* components all at 50 give an overall score of exactly 50, all at 100 give
\* 100 and all at 0 give 0.
C16_NormalizedWeights ==
    ReturnedFrom("overall") =>
        LET w == conviction_weights(arg.has_fund)
        IN /\ \A f \in {"w_tech", "w_fund", "w_news", "w_opt"} : ~Lt(w[f], Num(0))
           /\ Add(Add(w.w_tech, w.w_fund), Add(w.w_news, w.w_opt)) = Num(1)
           /\ \A v \in {Num(0), Num(50), Num(100)} : AllComponents(v) => ret = v

\* all four components at 50 with fundamentals: the overall score is 50
C16_Witness ==
    /\ ReturnedFrom("overall")
    /\ arg.has_fund
    /\ AllComponents(Num(50))
    /\ ret = Num(50)

\* a ratio that is not finite, taken as the ratio 1.0
OrOne(x) == IF isfinite(x) THEN x ELSE Num(1)

\* C17: a non-finite call/put volume or open-interest ratio contributes half
\* of its weight to score_volume_flow, exactly as a ratio of 1.0 does; with
\* both missing the options part is 20 of the 100 points.
C17_MissingRatioIsNeutral ==
    ReturnedFrom("score_volume_flow") =>
        /\ IsNum(ret)
        /\ ret = score_volume_flow(arg.tech,
                     [arg.opt EXCEPT !.call_put_vol_ratio = OrOne(@),
                                     !.call_put_oi_ratio = OrOne(@)])
        /\ (~isfinite(arg.opt.call_put_vol_ratio)
            /\ ~isfinite(arg.opt.call_put_oi_ratio)) =>
              ret = Num(30 * (IF arg.tech.vol_spike_up = 1 THEN 1 ELSE 0)
                        + 30 * (IF arg.tech.obv_slope_pos = 1 THEN 1 ELSE 0) + 20)

\* both ratios are NaN and the volume signals are off: the score is 20
C17_Witness ==
    /\ ReturnedFrom("score_volume_flow")
    /\ arg.opt.call_put_vol_ratio = NaN
    /\ arg.opt.call_put_oi_ratio = NaN
    /\ arg.tech.vol_spike_up = 0
    /\ arg.tech.obv_slope_pos = 0
    /\ ret = Num(20)

RECURSIVE Count(_, _, _)
Count(news, f, j) == IF j = 0 THEN 0 ELSE news[j][f] + Count(news, f, j - 1)

Bullish == Count(arg.news, "p_count", Len(arg.news))

Bearish == Count(arg.news, "n_count", Len(arg.news))

\* C18: analyze_sentiment is in [0, 100]; it is 50 for an empty list, for
\* headlines without keywords and for equal bullish and bearish counts; a net
\* count of +3 or more gives 100 and of -3 or less gives 0.
C18_SentimentRange ==
    ReturnedFrom("analyze_sentiment") =>
        /\ InRange0To100(ret)
        /\ arg.news = <<>> => ret = Num(50)
        /\ Bullish = Bearish => ret = Num(50)
        /\ Bullish - Bearish >= 3 => ret = Num(100)
        /\ Bullish - Bearish =< -3 => ret = Num(0)

\* two headlines with a net count of exactly +3
C18_Witness ==
    /\ ReturnedFrom("analyze_sentiment")
    /\ Len(arg.news) = 2
    /\ Bullish - Bearish = 3
    /\ Bearish > 0
    /\ ret = Num(100)

\* C19: score_options_sentiment is in [0, 100]; it is 50 when neither the
\* put/call volume ratio nor the IV skew is finite, and when both are 1.0.
C19_OptionsScoreRange ==
    ReturnedFrom("score_options_sentiment") =>
        /\ InRange0To100(ret)
        /\ (~isfinite(arg.opt.pcr_volume) /\ ~isfinite(arg.opt.iv_skew)) => ret = Num(50)
        /\ (arg.opt.pcr_volume = Num(1) /\ arg.opt.iv_skew = Num(1)) => ret = Num(50)

\* a low put/call ratio and a high skew: 50 + 50 + 50 is clamped to 100
C19_Witness ==
    /\ ReturnedFrom("score_options_sentiment")
    /\ arg.opt.pcr_volume = Rat(3, 10)
    /\ arg.opt.iv_skew = Num(2)
    /\ ret = Num(100)

-----------------------------------------------------------------------------
(* Claim about the independence of the per-ticker results, checked under Spec *)

\* what analyze_ticker returns for a symbol and the data d fetched for it
ResultFor(symbol, d) ==
    analyze_ticker_result(symbol, d.hist, d.opt, d.hist_1h, d.news, run_fundamental,
                          d.fund_data)

\* every result held by the scan is the function of its own fetched data and
\* of run_fundamental, and equal data give equal results
ResultsDependOnOwnData ==
    /\ Len(used) = Len(results)
    /\ \A j \in 1..Len(results) : results[j] = ResultFor(results[j].ticker, used[j])
    /\ \A j, k \in 1..Len(results) :
          used[j] = used[k] => results[j] = [results[k] EXCEPT !.ticker = results[j].ticker]

\* analysing a further ticker leaves the results of the earlier ones as they were
EarlierResultsKept ==
    pc # "start" =>
        /\ Len(results') >= Len(results)
        /\ \A j \in 1..Len(results) : results'[j] = results[j]

-----------------------------------------------------------------------------
(* Claims about the weighting without fundamentals *)

\* C21: without a valid fundamental result the overall score is
\* 60% technical score + 30% news sentiment score + 10% options score.
C21_NoFundWeights603010 ==
    (ReturnedFrom("overall") /\ ~arg.has_fund) =>
        ret = Round1(Add(Add(Mul(arg.tech_score, Rat(6, 10)),
                             Mul(arg.sent_score, Rat(3, 10))),
                         Mul(arg.opt_score, Rat(1, 10))))

-----------------------------------------------------------------------------
(* Claim about the monotonicity of score_options_sentiment *)

\* the finite ratios a score is compared at
FiniteRatios == {x \in RatioValues : isfinite(x)} \cup {Num(-1), Rat(7, 10), Num(5)}

\* C22: with the other input fixed, score_options_sentiment does not increase
\* when the put/call volume ratio increases, and does not decrease when the
\* IV skew increases, over all finite values of the varied input.
C22_OptionsScoreMonotone ==
    ReturnedFrom("score_options_sentiment") =>
        /\ isfinite(arg.opt.pcr_volume) =>
              \A q \in FiniteRatios :
                  Gt(q, arg.opt.pcr_volume) =>
                      ~Gt(score_options_sentiment([arg.opt EXCEPT !.pcr_volume = q]), ret)
        /\ isfinite(arg.opt.iv_skew) =>
              \A q \in FiniteRatios :
                  Gt(q, arg.opt.iv_skew) =>
                      ~Lt(score_options_sentiment([arg.opt EXCEPT !.iv_skew = q]), ret)

\* both inputs at 0.9: a higher ratio scores strictly less, a higher skew
\* strictly more
C22_Witness ==
    /\ ReturnedFrom("score_options_sentiment")
    /\ arg.opt.pcr_volume = Rat(9, 10)
    /\ arg.opt.iv_skew = Rat(9, 10)
    /\ Lt(score_options_sentiment([arg.opt EXCEPT !.pcr_volume = Rat(11, 10)]), ret)
    /\ Gt(score_options_sentiment([arg.opt EXCEPT !.iv_skew = Rat(11, 10)]), ret)

-----------------------------------------------------------------------------
(* Claim about the shape of the Kevin record *)

\* the quote type analyze_meet_kevin sees, 'EQUITY' when the key is missing
QuoteTypeOf(info) == IF info.quoteType = "absent" THEN "EQUITY" ELSE info.quoteType

-----------------------------------------------------------------------------
(* Claim about unavailable fundamentals *)

\* the call of analyze_ticker at hand asked for the fundamentals and returned
FundamentalFetchedAndReturned ==
    /\ run_fundamental
    /\ cur.returned = "returned"
    /\ fetched # <<>>
    /\ fetched[Len(fetched)] = [pos |-> cur.pos, call |-> "fundamentals"]

\* analyze_meet_kevin returned None, or the record of a skipped quote type
FundamentalUnavailable ==
    \/ cur.fund_data = KevinNone
    \/ cur.fund_data = KevinSkipped

\* C24: with run_fundamental true and the fundamental analysis unavailable
\* (None, or the skipped record of a non-EQUITY quote type), analyze_ticker
\* returns exactly the result it returns with run_fundamental false:
\* 'fundamental' stays None and the skipped score 0 does not enter the
\* overall score.
C24_UnavailableFundamentalsAsNotRun ==
    (FundamentalFetchedAndReturned /\ FundamentalUnavailable) =>
        /\ cur.result = analyze_ticker_result(tickers[cur.pos], cur.hist, cur.opt,
                                              cur.hist_1h, cur.news, FALSE, KevinNone)
        /\ cur.result.fundamental = KevinNone
        /\ cur.result.overall_score =
              Round1(Add(Mul(Add(Mul(score_price_momentum(
                                         compute_technical_metrics_from_hist(cur.hist)),
                                     Rat(6, 10)),
                                 Mul(score_volume_flow(
                                         compute_technical_metrics_from_hist(cur.hist),
                                         cur.opt),
                                     Rat(4, 10))),
                             Rat(7, 10)),
                         Mul(analyze_sentiment(cur.news), Rat(3, 10))))

\* an ETF: the skipped record came back and the result went into the list
\* with a positive overall score
C24_Witness ==
    /\ FundamentalFetchedAndReturned
    /\ cur.fund_data = KevinSkipped
    /\ cur.result.fundamental = KevinNone
    /\ Gt(cur.result.overall_score, Num(50))
    /\ results = <<cur.result>>

-----------------------------------------------------------------------------
(* Claim about the scan loop *)

\* the list positions of the calls of analyze_ticker so far, in call order
\* (every call starts with the fetch of the daily history)
AnalysedPositions ==
    LET starts == SelectSeq(fetched, LAMBDA c : c.call = "history_1d")
    IN [k \in 1..Len(starts) |-> starts[k].pos]

\* the call for position p went past the return of the error record (line 621)
ReturnedWithoutError(p) ==
    \E k \in 1..Len(fetched) : fetched[k] = [pos |-> p, call |-> "options"]

\* the tickers at positions 1..p whose analysis returned no error, in list order
RECURSIVE TickersWithoutError(_)
TickersWithoutError(p) ==
    IF p = 0 THEN <<>>
    ELSE IF ReturnedWithoutError(p)
         THEN Append(TickersWithoutError(p - 1), tickers[p])
         ELSE TickersWithoutError(p - 1)

\* the calls so far are those of positions 1, 2, ... in order, once each, up
\* to the ticker at hand; when
\* the loop is over every ticker was analysed, results holds the tickers
\* without error in list order, and the table is shown exactly when results
\* is not empty, the warning otherwise; nothing is shown before
ScanLoopState ==
    /\ AnalysedPositions = [k \in 1..Len(AnalysedPositions) |-> k]
    /\ Len(AnalysedPositions) = IF pc = "history" THEN i - 1 ELSE i
    /\ pc = "done" =>
          /\ Len(AnalysedPositions) = Len(tickers)
          /\ [k \in 1..Len(results) |-> results[k].ticker]
                 = TickersWithoutError(Len(tickers))
          /\ (ui.k = "table") = (results # <<>>)
          /\ (ui.k = "warning") = (results = <<>>)
          /\ ui = render(results)
    /\ pc \notin {"done", "crashed"} => ui = NothingShown

\* a returning call appends its result when it holds no error and leaves
\* results alone when it does; no other step touches results
ScanLoopStep ==
    results' = IF cur'.returned = "returned" /\ fetched' # fetched
                  /\ ~cur'.result.error
               THEN Append(results, cur'.result)
               ELSE results

\* C25: the scan loop analyses each ticker exactly once, in list order; after
\* the loop results holds exactly the tickers whose analysis returned no
\* 'error' key, in input order; display_results is invoked exactly when that
\* list is non-empty, and the 'No results found.' warning is shown otherwise.
C25_ScanLoop == []ScanLoopState /\ [][ScanLoopStep]_vars

\* two tickers: the first has no data, the second is shown alone
C25_Witness ==
    /\ pc = "done"
    /\ Len(tickers) = 2
    /\ AnalysedPositions = <<1, 2>>
    /\ ~ReturnedWithoutError(1)
    /\ Len(results) = 1
    /\ results[1].ticker = tickers[2]
    /\ ui.k = "table"

-----------------------------------------------------------------------------
(* Claim about the order of the fetches within analyze_ticker *)

\* the fetches of the call for list position p, in the order they were made
CallsOf(p) ==
    LET AtP(c) == c.pos = p
        calls == SelectSeq(fetched, AtP)
    IN [k \in 1..Len(calls) |-> calls[k].call]

\* the fetches of a call that goes all the way
FetchOrder(with_fundamentals) ==
    IF with_fundamentals
    THEN <<"history_1d", "options", "history_1h", "news", "fundamentals">>
    ELSE <<"history_1d", "options", "history_1h", "news">>

IsPrefix(s, t) == Len(s) <= Len(t) /\ s = SubSeq(t, 1, Len(s))

\* C26: analyze_ticker fetches the daily history first; when it is empty the
\* call returns the error record at once, with no options, hourly-history,
\* news or fundamentals fetch; the fundamentals are fetched only when
\* run_fundamental is true, and only after the technical, options and news
\* steps.
C26_FetchOrder ==
    \A p \in 1..Len(tickers) :
        /\ IsPrefix(CallsOf(p), FetchOrder(run_fundamental))
        /\ (cur.pos = p /\ cur.returned # "none" /\ cur.hist.k = "empty") =>
               /\ cur.returned = "returned"
               /\ cur.result = empty_history_return
               /\ CallsOf(p) = <<"history_1d">>
        /\ (cur.pos = p /\ cur.returned = "returned" /\ cur.hist.k # "empty") =>
               CallsOf(p) = FetchOrder(run_fundamental)

\* a scan with fundamentals: no data for the first ticker, all five fetches
\* for the second
C26_Witness ==
    /\ pc = "done"
    /\ run_fundamental
    /\ Len(tickers) = 2
    /\ CallsOf(1) = <<"history_1d">>
    /\ CallsOf(2) = <<"history_1d", "options", "history_1h", "news", "fundamentals">>

-----------------------------------------------------------------------------
(* Claim about the valuation check *)

\* the PEG ratio analyze_meet_kevin reads from the snapshot
PegRead == Get(arg.info.pegRatio, None)

\* C27: a non-positive PEG ratio never earns valuation credit: the valuation
\* check adds to the score only when 0 < PEG < 1.5 (one point for
\* 0 < PEG < 1.0, half a point for 1.0 <= PEG < 1.5), and a zero, negative or
\* missing PEG gives the non-pass 'Expensive' outcome.
C27_NonPositivePegNoCredit ==
    KevinScored =>
        LET peg == PegRead
            val == ret.results.val
        IN /\ val.add2 > 0 => (IsNum(peg) /\ Gt(peg, Num(0)) /\ Lt(peg, Rat(3, 2)))
           /\ (IsNum(peg) /\ Gt(peg, Num(0)) /\ Lt(peg, Num(1))) => val.add2 = 2
           /\ (IsNum(peg) /\ ~Lt(peg, Num(1)) /\ Lt(peg, Rat(3, 2))) => val.add2 = 1
           /\ (peg.k \in {"absent", "none"} \/ (IsNum(peg) /\ ~Gt(peg, Num(0)))) =>
                 (val.add2 = 0 /\ val.pass = "False" /\ val.msg = "Expensive")

====
